---- MODULE Spec2Model ----
(***************************************************************************)
(* A model of the hydrus client API binding (src/python/hydrus/__init__.py) *)
(* The state is one Client instance (its credential and base URL), the      *)
(* number of requests its transport has sent, and a record of the most      *)
(* recent call: its arguments, the request it sent, the response the        *)
(* service gave and what the call returned or raised.  The service is an    *)
(* external collaborator: its response is an input of every action.         *)
(***************************************************************************)
EXTENDS Integers, Sequences, FiniteSets, TLC

VARIABLES
    constructed,      \* a Client instance exists (its __init__ returned)
    access_key,       \* self._access_key
    url,              \* self._url
    transport_calls,  \* how many times self._session.request has been called
    last              \* the most recent call: arguments, request, response, outcome

vars == <<constructed, access_key, url, transport_calls, last>>

----------------------------------------------------------------------------
(* Bounds *)

\* Cap of the transport's request counter.
MaxRequests == 2
\* Longest list the service sends in basic_permissions and url_file_statuses.
MaxList == 2
\* Most status entries of a file_metadata document in the translator's model.
MaxEntries == 2

----------------------------------------------------------------------------
(* Python values.  Every value carries its type in t, so that values of     *)
(* different types are distinct and never compared by their payload.        *)
(* Strings are sequences of one-character strings.                          *)

None == [t |-> "NoneType"]
PyInt(n) == [t |-> "int", v |-> n]
PyStr(s) == [t |-> "str", v |-> s]
PyList(xs) == [t |-> "list", v |-> xs]
PyBool(b) == [t |-> "bool", v |-> b]
\* io.BytesIO: an in-memory binary stream, its bytes and its read position.
BytesIO(bs, p) == [t |-> "BytesIO", v |-> bs, pos |-> p]
\* io.BufferedReader: what open(path, 'rb') returns, a binary stream on a file.
BufferedReader(bs, p) == [t |-> "BufferedReader", v |-> bs, pos |-> p]

\* Python's truth value of an object.
bool(x) ==
    CASE x.t = "NoneType" -> FALSE
      [] x.t = "int" -> x.v # 0
      [] x.t = "bool" -> x.v
      [] x.t = "str" -> Len(x.v) > 0
      [] x.t = "list" -> Len(x.v) > 0
      [] x.t = "dict" -> Len(x.v) > 0
      [] OTHER -> TRUE

\* stream.read(): the bytes from the read position to the end.
read(stream) == SubSeq(stream.v, stream.pos + 1, Len(stream.v))

\* json.dumps(x): a str holding the JSON text of x.
dumps(x) == [t |-> "str", json |-> x]

\* str.rstrip('/'): drop every trailing '/'.
RECURSIVE rstrip(_)
rstrip(s) ==
    IF Len(s) > 0 /\ s[Len(s)] = "/" THEN rstrip(SubSeq(s, 1, Len(s) - 1)) ELSE s

\* A dict with string keys is a record; dict.update(e) overrides d by e.
update(d, e) ==
    [k \in (DOMAIN d) \cup (DOMAIN e) |-> IF k \in DOMAIN e THEN e[k] ELSE d[k]]

EmptyDict == <<>>

----------------------------------------------------------------------------
(* The error taxonomy and the closed enumerations *)

\* The direct base class of each exception class.
Base(cls) ==
    CASE cls \in {"MissingParameter", "InsufficientAccess", "ServerError"} -> "APIError"
      [] cls = "APIError" -> "Exception"
      [] cls = "ValueError" -> "Exception"
      [] OTHER -> "BaseException"

\* isinstance(exception of class cls, base)
RECURSIVE IsInstance(_, _)
IsInstance(cls, base) ==
    IF cls = base THEN TRUE
    ELSE IF cls = "BaseException" THEN FALSE
    ELSE IsInstance(Base(cls), base)

\* Exceptions carry the response they were built from (APIError.response);
\* the others carry none.
Raise(cls, responses) == [kind |-> "raise", exc |-> [cls |-> cls, response |-> responses]]
Return(value) == [kind |-> "return", value |-> value]

Permission == {0, 1, 2, 3}
URLType == {0, 2, 3, 4, 5}
ImportStatus == {0, 1, 2, 3, 4, 7}
TagAction == {0, 1, 2, 3, 4, 5}
TagStatus == {0, 1, 2, 3}

Values(enum) ==
    CASE enum = "Permission" -> Permission
      [] enum = "URLType" -> URLType
      [] enum = "ImportStatus" -> ImportStatus
      [] enum = "TagAction" -> TagAction
      [] enum = "TagStatus" -> TagStatus

\* An enumeration left open: every integer from 0 upward is taken for a member.
IsValue_Open(enum, n) == n >= 0

\* enum(n) for an integer n: the member with that value, or ValueError.
IsValue(enum, n) == n \in Values(enum)
Member(enum, n) == [t |-> enum, v |-> n]

VERSION == 4

AccessKeyHeader == "Hydrus-Client-API-Access-Key"

----------------------------------------------------------------------------
(* The request dispatcher *)

\* response.raise_for_status() raises requests.HTTPError
raise_for_status(response) ==
    400 <= response.status_code /\ response.status_code < 600

\* A mapping that forgets 403.
ErrorClass_Without403(status_code) ==
    IF status_code = 400 THEN "MissingParameter"
    ELSE IF status_code = 401 THEN "InsufficientAccess"
    ELSE IF status_code = 500 THEN "ServerError"
    ELSE "APIError"

\* The class of the error raised for a response that raise_for_status rejects.
ErrorClass(status_code) ==
    IF status_code = 400 THEN "MissingParameter"
    ELSE IF status_code \in {401, 403} THEN "InsufficientAccess"
    ELSE IF status_code = 500 THEN "ServerError"
    ELSE "APIError"

\* Headers the caller passes are left as they are.
Headers_KeepsCallers(key, kwargs) ==
    IF bool(key) /\ "headers" \notin DOMAIN kwargs
    THEN update(kwargs, [headers |-> [h \in {AccessKeyHeader} |-> key]])
    ELSE kwargs

\* The keyword arguments handed to session.request: the caller's, with the
\* access key added to (or put in place of) the headers when the key is truthy.
Headers(key, kwargs) ==
    IF bool(key)
    THEN update(kwargs,
                [headers |-> update(IF "headers" \in DOMAIN kwargs
                                    THEN kwargs.headers ELSE EmptyDict,
                                    [h \in {AccessKeyHeader} |-> key])])
    ELSE kwargs

\* _call_endpoint on a client with credential key and base URL base: the
\* request sent, and either the response (returned) or the error raised.
_call_endpoint(key, base, method, endpoint, kwargs, response) ==
    [request |-> [method |-> method, url |-> Append(base, endpoint),
                  kwargs |-> Headers(key, kwargs)],
     raised |-> raise_for_status(response),
     outcome |-> IF raise_for_status(response)
                 THEN Raise(ErrorClass(response.status_code), <<response>>)
                 ELSE Return(response)]

----------------------------------------------------------------------------
(* Ordered dicts whose keys are not plain strings: a sequence of <<key,      *)
(* value>> pairs with distinct keys, in insertion order.                    *)

PyDict(items) == [t |-> "dict", v |-> items]

DictKeys(d) == {d[i][1] : i \in DOMAIN d}

\* d[k] = v: an existing key keeps its place, a new key goes last.
DictSet(d, k, v) ==
    IF k \in DictKeys(d)
    THEN [i \in DOMAIN d |-> IF d[i][1] = k THEN <<k, v>> ELSE d[i]]
    ELSE Append(d, <<k, v>>)

\* del d[k]
DictDel(d, k) == SelectSeq(d, LAMBDA item : item[1] # k)

DictGet(d, k) == d[CHOOSE i \in DOMAIN d : d[i][1] = k][2]

----------------------------------------------------------------------------
(* int(str) for strings of digits, signs and letters: an optional sign and  *)
(* one or more decimal digits, anything else is a ValueError.               *)

DigitChars == <<"0", "1", "2", "3", "4", "5", "6", "7", "8", "9">>

IsDigit(c) == \E i \in DOMAIN DigitChars : DigitChars[i] = c

DigitValue(c) == (CHOOSE i \in DOMAIN DigitChars : DigitChars[i] = c) - 1

RECURSIVE Decimal(_)
Decimal(cs) ==
    IF cs = <<>> THEN 0
    ELSE 10 * Decimal(SubSeq(cs, 1, Len(cs) - 1)) + DigitValue(cs[Len(cs)])

Signed(cs) == Len(cs) > 0 /\ cs[1] \in {"+", "-"}

Unsigned(cs) == IF Signed(cs) THEN Tail(cs) ELSE cs

\* int(s) succeeds
IsInt(s) ==
    /\ Len(Unsigned(s.v)) > 0
    /\ \A i \in DOMAIN Unsigned(s.v) : IsDigit(Unsigned(s.v)[i])

\* int(s), when it succeeds
int(s) ==
    IF Signed(s.v) /\ s.v[1] = "-"
    THEN 0 - Decimal(Unsigned(s.v))
    ELSE Decimal(Unsigned(s.v))

----------------------------------------------------------------------------
(* Bookkeeping of a call *)

NoCall ==
    [op |-> "", args |-> EmptyDict, sent |-> <<>>, response |-> <<>>,
     translated |-> FALSE, outcome |-> Return(None), warnings |-> 0]

\* A call of operation op that reaches the dispatcher with the given request
\* parts; result is what the operation's own code makes of the response when
\* the dispatcher returns it.
Issue(op, args, method, endpoint, kwargs, response, result) ==
    LET d == _call_endpoint(access_key, url, method, endpoint, kwargs, response)
    IN  /\ transport_calls < MaxRequests
        /\ transport_calls' = transport_calls + 1
        /\ last' = [op |-> op, args |-> args, sent |-> <<d.request>>,
                    response |-> <<response>>, translated |-> ~d.raised,
                    outcome |-> IF d.raised THEN d.outcome ELSE result,
                    warnings |-> 0]
        /\ UNCHANGED <<constructed, access_key, url>>

\* A call of operation op that raises before it reaches the dispatcher.
Reject(op, args, cls) ==
    /\ transport_calls < MaxRequests
    /\ last' = [op |-> op, args |-> args, sent |-> <<>>, response |-> <<>>,
                translated |-> FALSE, outcome |-> Raise(cls, <<>>), warnings |-> 0]
    /\ UNCHANGED <<constructed, access_key, url, transport_calls>>

----------------------------------------------------------------------------
(* What the service answers.  A 4xx or 5xx answer carries a diagnostic     *)
(* text; any other answer carries a document of the operation's schema.     *)

Statuses == {200, 304, 400, 401, 403, 418, 500}

ErrorText == PyStr(<<"e", "r", "r">>)

Responses(bodies) ==
    {[status_code |-> s, body |-> b] : s \in {c \in Statuses : c < 400}, b \in bodies}
    \cup {[status_code |-> s, body |-> ErrorText] : s \in {c \in Statuses : c >= 400}}

\* Sequences over S of length at most n.
SeqsUpTo(S, n) == UNION {[1..k -> S] : k \in 0..n}

----------------------------------------------------------------------------
(* Client construction and the plain operations *)

AccessKeys == {None, PyStr(<<>>), PyStr(<<"k", "1">>), PyStr(<<"k", "2">>)}

BaseURLs == {<<"h">>, <<"h", "/">>, <<"g", "/", "/">>}

VersionBodies == {[version |-> PyInt(n)] : n \in {3, 4, 5}}

\* Only a newer service is reported.
Mismatch_OnlyNewer(api_version) == VERSION < api_version.v

\* self.VERSION != api_version
Mismatch(api_version) == VERSION # api_version.v

\* What a call Client(access_key=key, url=base) leaves as the most recent call.
Construction(key, base, response) ==
    LET d == _call_endpoint(key, rstrip(base), "GET", "/api_version", EmptyDict, response)
        api_version == response.body.version
    IN  [op |-> "__init__", args |-> [access_key |-> key, url |-> base],
         sent |-> <<d.request>>, response |-> <<response>>,
         translated |-> ~d.raised,
         outcome |-> IF d.raised THEN d.outcome ELSE Return(None),
         warnings |-> IF ~d.raised /\ Mismatch(api_version) THEN 1 ELSE 0]

\* Client(access_key=key, url=base).  The instance replaces the caller's
\* client only when __init__ returns.
__init__(key, base, response) ==
    /\ transport_calls < MaxRequests
    /\ transport_calls' = transport_calls + 1
    /\ last' = Construction(key, base, response)
    /\ IF raise_for_status(response)
       THEN UNCHANGED <<constructed, access_key, url>>
       ELSE /\ constructed' = TRUE
            /\ access_key' = key
            /\ url' = rstrip(base)

api_version(response) ==
    /\ constructed
    /\ Issue("api_version", EmptyDict, "GET", "/api_version", EmptyDict, response,
             Return(response.body.version))

request_new_permissions(name, permissions, response) ==
    /\ constructed
    /\ Issue("request_new_permissions", [name |-> name, permissions |-> permissions],
             "GET", "/request_new_permissions",
             [params |-> [name |-> name, basic_permissions |-> dumps(permissions)]],
             response, Return(response.body.access_key))

clean_tags(tags, response) ==
    /\ constructed
    /\ Issue("clean_tags", [tags |-> tags], "GET", "/add_tags/clean_tags",
             [params |-> [tags |-> dumps(tags)]], response, Return(response.body.tags))

get_tag_services(response) ==
    /\ constructed
    /\ Issue("get_tag_services", EmptyDict, "GET", "/add_tags/get_tag_services",
             EmptyDict, response, Return(response.body))

add_tags(hashes, services_to_tags, services_to_actions, response) ==
    /\ constructed
    /\ Issue("add_tags",
             [hashes |-> hashes, services_to_tags |-> services_to_tags,
              services_to_actions |-> services_to_actions],
             "POST", "/add_tags/add_tags",
             [json |-> update(update([hashes |-> hashes],
                                     IF bool(services_to_tags)
                                     THEN [service_names_to_tags |-> services_to_tags]
                                     ELSE EmptyDict),
                              IF bool(services_to_actions)
                              THEN [service_names_to_actions_to_tags |-> services_to_actions]
                              ELSE EmptyDict)],
             response, Return(None))

add_url(u, page_name, service_to_tags, response) ==
    /\ constructed
    /\ Issue("add_url",
             [url |-> u, page_name |-> page_name, service_to_tags |-> service_to_tags],
             "POST", "/add_urls/add_url",
             [json |-> update(update([url |-> u],
                                     IF bool(page_name)
                                     THEN [destination_page_name |-> page_name]
                                     ELSE EmptyDict),
                              IF bool(service_to_tags)
                              THEN [service_names_to_tags |-> service_to_tags]
                              ELSE EmptyDict)],
             response, Return(response.body))

associate_url(hashes, add, delete, response) ==
    /\ constructed
    /\ Issue("associate_url", [hashes |-> hashes, add |-> add, delete |-> delete],
             "POST", "/add_urls/associate_url",
             [json |-> update(update([hashes |-> hashes],
                                     IF bool(add) THEN [urls_to_add |-> add] ELSE EmptyDict),
                              IF bool(delete) THEN [urls_to_delete |-> delete] ELSE EmptyDict)],
             response, Return(None))

search_files(tags, inbox, archive, response) ==
    /\ constructed
    /\ Issue("search_files", [tags |-> tags, inbox |-> inbox, archive |-> archive],
             "GET", "/get_files/search_files",
             [params |-> [tags |-> dumps(tags), system_inbox |-> dumps(inbox),
                          system_archive |-> dumps(archive)]],
             response, Return(response.body.file_ids))

----------------------------------------------------------------------------
(* The operations that coerce integers of the response into enumerations *)

\* [enum(value) for value in values]: the members, when every value is one.
AllValues(enum, values) == \A i \in DOMAIN values : IsValue(enum, values[i].v)

Members(enum, values) == [i \in DOMAIN values |-> Member(enum, values[i].v)]

verify_access_key(response) ==
    /\ constructed
    /\ Issue("verify_access_key", EmptyDict, "GET", "/verify_access_key", EmptyDict, response,
             IF AllValues("Permission", response.body.basic_permissions.v)
             THEN Return(update(response.body,
                                [basic_permissions |->
                                    PyList(Members("Permission",
                                                   response.body.basic_permissions.v))]))
             ELSE Raise("ValueError", <<>>))

\* data['status'] = ImportStatus(data['status'])
ImportStatusOf(data) ==
    IF IsValue("ImportStatus", data.status.v)
    THEN Return(update(data, [status |-> Member("ImportStatus", data.status.v)]))
    ELSE Raise("ValueError", <<>>)

add_file(path_or_file, response) ==
    /\ constructed
    /\ IF path_or_file.t = "str"
       THEN Issue("add_file", [path_or_file |-> path_or_file], "POST", "/add_files/add_file",
                  [json |-> [path |-> path_or_file]], response, ImportStatusOf(response.body))
       ELSE IF path_or_file.t = "BytesIO"
       THEN Issue("add_file", [path_or_file |-> path_or_file], "POST", "/add_files/add_file",
                  [data |-> read(path_or_file),
                   headers |-> [h \in {"Content-Type"} |-> PyStr(<<"application/octet-stream">>)]],
                  response, ImportStatusOf(response.body))
       ELSE Reject("add_file", [path_or_file |-> path_or_file], "ValueError")

\* for file_status in data['url_file_statuses']: file_status['status'] = ImportStatus(...)
get_url_files(u, response) ==
    /\ constructed
    /\ Issue("get_url_files", [url |-> u], "GET", "/add_urls/get_url_files",
             [params |-> [url |-> u]], response,
             IF AllValues("ImportStatus",
                          [i \in DOMAIN response.body.url_file_statuses.v |->
                              response.body.url_file_statuses.v[i].status])
             THEN Return(update(response.body,
                     [url_file_statuses |->
                         PyList([i \in DOMAIN response.body.url_file_statuses.v |->
                                    ImportStatusOf(response.body.url_file_statuses.v[i]).value])]))
             ELSE Raise("ValueError", <<>>))

get_url_info(u, response) ==
    /\ constructed
    /\ Issue("get_url_info", [url |-> u], "GET", "/add_urls/get_url_info",
             [params |-> [url |-> u]], response,
             IF IsValue("URLType", response.body.url_type.v)
             THEN Return(update(response.body,
                                [url_type |-> Member("URLType", response.body.url_type.v)]))
             ELSE Raise("ValueError", <<>>))

----------------------------------------------------------------------------
(* The operations that take a file identity *)

\* not bool(a) ^ bool(b)
NotXor(a, b) == ~(bool(a) # bool(b))

\* params of get_file and get_thumbnail
IdentityParams(hash_, file_id) ==
    IF bool(hash_) THEN [hash |-> hash_]
    ELSE IF bool(file_id) THEN [file_id |-> file_id]
    ELSE EmptyDict

get_file(hash_, file_id, response) ==
    /\ constructed
    /\ IF NotXor(hash_, file_id)
       THEN Reject("get_file", [hash_ |-> hash_, file_id |-> file_id], "Exception")
       ELSE Issue("get_file", [hash_ |-> hash_, file_id |-> file_id], "GET", "/get_files/file",
                  [params |-> IdentityParams(hash_, file_id)], response, Return(response.body))

get_thumbnail(hash_, file_id, response) ==
    /\ constructed
    /\ IF NotXor(hash_, file_id)
       THEN Reject("get_thumbnail", [hash_ |-> hash_, file_id |-> file_id], "Exception")
       ELSE Issue("get_thumbnail", [hash_ |-> hash_, file_id |-> file_id], "GET",
                  "/get_files/thumbnail",
                  [params |-> IdentityParams(hash_, file_id)], response, Return(response.body))

\* params of file_metadata
MetadataParams(hashes, file_ids, only_identifiers) ==
    update(update(IF bool(hashes) THEN [hashes |-> dumps(hashes)] ELSE EmptyDict,
                  IF bool(file_ids) THEN [file_ids |-> dumps(file_ids)] ELSE EmptyDict),
           IF bool(only_identifiers)
           THEN [only_return_identifiers |-> dumps(only_identifiers)] ELSE EmptyDict)

\* TagStatus(int(status)) succeeds
IsTagStatus(status) == IsInt(status) /\ IsValue("TagStatus", int(status))

\* new_status = TagStatus(int(status))
new_status(status) == Member("TagStatus", int(status))

\* The raw key is left in the mapping.
Rekey_KeepsRaw(status_to_tags, status, tags) ==
    DictSet(status_to_tags, new_status(status), tags)

\* services_to_statuses[service][new_status] = tags
\* del services_to_statuses[service][status]
Rekey(status_to_tags, status, tags) ==
    DictDel(DictSet(status_to_tags, new_status(status), tags), status)

\* for status, tags in list(status_to_tags.items()): items is the list,
\* status_to_tags the dict as the loop has changed it so far.
RECURSIVE TranslateStatuses(_, _)
TranslateStatuses(items, status_to_tags) ==
    IF items = <<>> THEN [ok |-> TRUE, v |-> status_to_tags]
    ELSE IF ~IsTagStatus(Head(items)[1]) THEN [ok |-> FALSE]
    ELSE TranslateStatuses(Tail(items),
                           Rekey(status_to_tags, Head(items)[1], Head(items)[2]))

\* for service, status_to_tags in services_to_statuses.items()
RECURSIVE TranslateServices(_)
TranslateServices(services) ==
    IF services = <<>> THEN [ok |-> TRUE, v |-> <<>>]
    ELSE LET first == TranslateStatuses(Head(services)[2], Head(services)[2])
             rest == TranslateServices(Tail(services))
         IN  IF first.ok /\ rest.ok
             THEN [ok |-> TRUE, v |-> <<<<Head(services)[1], first.v>>>> \o rest.v]
             ELSE [ok |-> FALSE]

\* for datum in data
RECURSIVE TranslateData(_)
TranslateData(data) ==
    IF data = <<>> THEN [ok |-> TRUE, v |-> <<>>]
    ELSE LET first == TranslateServices(Head(data).service_names_to_statuses_to_tags)
             rest == TranslateData(Tail(data))
         IN  IF first.ok /\ rest.ok
             THEN [ok |-> TRUE,
                   v |-> <<update(Head(data),
                                  [service_names_to_statuses_to_tags |-> first.v])>>
                         \o rest.v]
             ELSE [ok |-> FALSE]

file_metadata(hashes, file_ids, only_identifiers, response) ==
    /\ constructed
    /\ IF NotXor(hashes, file_ids)
       THEN Reject("file_metadata",
                   [hashes |-> hashes, file_ids |-> file_ids,
                    only_identifiers |-> only_identifiers], "Exception")
       ELSE Issue("file_metadata",
                  [hashes |-> hashes, file_ids |-> file_ids,
                   only_identifiers |-> only_identifiers],
                  "GET", "/get_files/file_metadata",
                  [params |-> MetadataParams(hashes, file_ids, only_identifiers)], response,
                  IF bool(only_identifiers) THEN Return(response.body.metadata)
                  ELSE IF TranslateData(response.body.metadata).ok
                  THEN Return(TranslateData(response.body.metadata).v)
                  ELSE Raise("ValueError", <<>>))

----------------------------------------------------------------------------
(* The arguments callers pass and the documents the service sends *)

VersionResponses == Responses(VersionBodies)

NewPermissionsResponses == Responses({[access_key |-> PyStr(<<"k", "2">>)]})

PermissionResponses ==
    Responses({[basic_permissions |-> PyList(xs), human_description |-> PyStr(<<"d">>)] :
                  xs \in SeqsUpTo({PyInt(n) : n \in {0, 3, 4}}, MaxList)})

AddFileResponses ==
    Responses({[status |-> PyInt(n), hash |-> PyStr(<<"a", "b">>), note |-> PyStr(<<>>)] :
                  n \in {0, 4, 5, 7, 8}})

UrlFilesResponses ==
    Responses({[normalised_url |-> PyStr(<<"u">>), url_file_statuses |-> PyList(xs)] :
                  xs \in SeqsUpTo({[status |-> PyInt(n), hash |-> PyStr(<<"a", "b">>)] :
                                      n \in {2, 6, 7}}, MaxList)})

UrlInfoResponses ==
    Responses({[normalised_url |-> PyStr(<<"u">>), url_type |-> PyInt(n)] :
                  n \in {0, 1, 2, 5, 6}})

CleanTagsResponses == Responses({[tags |-> PyList(<<PyStr(<<"a">>)>>)]})

TagServicesResponses == Responses({[local_tags |-> PyList(<<PyStr(<<"m">>)>>)]})

AddUrlResponses == Responses({[human_result_text |-> PyStr(<<"o", "k">>)]})

EmptyResponses == Responses({EmptyDict})

SearchResponses ==
    Responses({[file_ids |-> PyList(xs)] : xs \in {<<>>, <<PyInt(1), PyInt(2), PyInt(3)>>}})

ContentResponses ==
    Responses({[t |-> "bytes", v |-> <<>>], [t |-> "bytes", v |-> <<137, 80>>]})

PathsOrFiles ==
    {PyStr(<<"p">>), BytesIO(<<1, 2>>, 0), BytesIO(<<1, 2>>, 1),
     BufferedReader(<<1, 2>>, 0), PyInt(5), None}

Hashes == {None, PyStr(<<>>), PyStr(<<"a", "b">>)}

FileIds == {None, PyInt(0), PyInt(7)}

HashLists == {None, PyList(<<>>), PyList(<<PyStr(<<"a", "b">>)>>)}

FileIdLists == {None, PyList(<<>>), PyList(<<PyInt(0)>>)}

Flags == {PyBool(FALSE), PyBool(TRUE)}

TagMaps ==
    {None, PyDict(<<>>), PyDict(<<<<"my tags", PyList(<<PyStr(<<"a">>)>>)>>>>)}

\* A file_metadata document: two file records, their tag services filled by
\* a sequence of status entries (record and service, raw status key, tags)
\* in the order the document lists them.
MetaSlots == {<<1, "my tags">>, <<1, "public">>, <<2, "my tags">>}

RawKeys == {PyStr(<<"0">>), PyStr(<<"1">>), PyStr(<<"0", "1">>), PyStr(<<"4">>), PyStr(<<"x">>)}

TagLists == {<<"a">>, <<"b">>}

MetaEntries == [slot : MetaSlots, key : RawKeys, tags : TagLists]

EntrySeqs(n) ==
    {es \in SeqsUpTo(MetaEntries, n) :
        \A i, j \in DOMAIN es :
            i # j => <<es[i].slot, es[i].key>> # <<es[j].slot, es[j].key>>}

RECURSIVE ServicesOf(_, _, _)
ServicesOf(es, rec, services) ==
    IF es = <<>> THEN services
    ELSE IF Head(es).slot[1] # rec THEN ServicesOf(Tail(es), rec, services)
    ELSE ServicesOf(Tail(es), rec,
                    DictSet(services, Head(es).slot[2],
                            Append(IF Head(es).slot[2] \in DictKeys(services)
                                   THEN DictGet(services, Head(es).slot[2]) ELSE <<>>,
                                   <<Head(es).key, Head(es).tags>>)))

MetaBody(es) ==
    [metadata |-> [rec \in 1..2 |->
                      [file_id |-> PyInt(rec),
                       service_names_to_statuses_to_tags |-> ServicesOf(es, rec, <<>>)]]]

\* Every document of at most MaxEntries entries.
MetaResponses == Responses({MetaBody(es) : es \in EntrySeqs(MaxEntries)})

\* A few documents: no tags, the single current tag of "my tags", two
\* services with different statuses, and a status the binding does not know.
MetaSamples ==
    Responses({MetaBody(es) : es \in
        {<<>>,
         <<[slot |-> <<1, "my tags">>, key |-> PyStr(<<"0">>), tags |-> <<"a">>]>>,
         <<[slot |-> <<1, "my tags">>, key |-> PyStr(<<"0">>), tags |-> <<"a">>],
           [slot |-> <<1, "public">>, key |-> PyStr(<<"1">>), tags |-> <<"b">>]>>,
         <<[slot |-> <<2, "my tags">>, key |-> PyStr(<<"4">>), tags |-> <<"a">>]>>}})

----------------------------------------------------------------------------
(* The specification of the client's operations *)

Init ==
    /\ constructed = FALSE
    /\ access_key = None
    /\ url = <<>>
    /\ transport_calls = 0
    /\ last = NoCall

Next ==
    \/ \E key \in AccessKeys, base \in BaseURLs, r \in VersionResponses :
          __init__(key, base, r)
    \/ \E r \in VersionResponses : api_version(r)
    \/ \E r \in NewPermissionsResponses :
          request_new_permissions(PyStr(<<"n">>), PyList(<<PyInt(0), PyInt(3)>>), r)
    \/ \E r \in PermissionResponses : verify_access_key(r)
    \/ \E f \in PathsOrFiles, r \in AddFileResponses : add_file(f, r)
    \/ \E r \in CleanTagsResponses : clean_tags(PyList(<<PyStr(<<" ", "a">>)>>), r)
    \/ \E r \in TagServicesResponses : get_tag_services(r)
    \/ \E t \in TagMaps, a \in TagMaps \ {PyDict(<<>>)}, r \in EmptyResponses :
          add_tags(PyList(<<PyStr(<<"a", "b">>)>>), t, a, r)
    \/ \E r \in UrlFilesResponses : get_url_files(PyStr(<<"u">>), r)
    \/ \E r \in UrlInfoResponses : get_url_info(PyStr(<<"u">>), r)
    \/ \E n \in {None, PyStr(<<>>), PyStr(<<"p">>)}, t \in TagMaps \ {PyDict(<<>>)},
          r \in AddUrlResponses :
          add_url(PyStr(<<"u">>), n, t, r)
    \/ \E a \in {None, PyList(<<>>), PyList(<<PyStr(<<"u">>)>>)},
          d \in {PyList(<<>>), PyList(<<PyStr(<<"v">>)>>)}, r \in EmptyResponses :
          associate_url(PyList(<<PyStr(<<"a", "b">>)>>), a, d, r)
    \/ \E i \in Flags, a \in Flags, r \in SearchResponses :
          search_files(PyList(<<PyStr(<<"c">>)>>), i, a, r)
    \/ \E hs \in HashLists, ids \in FileIdLists, o \in Flags, r \in MetaSamples :
          file_metadata(hs, ids, o, r)
    \/ \E h \in Hashes, id \in FileIds, r \in ContentResponses : get_file(h, id, r)
    \/ \E h \in Hashes, id \in FileIds, r \in ContentResponses : get_thumbnail(h, id, r)

Spec == Init /\ [][Next]_vars

(* The specification of file_metadata's translation: a client constructed   *)
(* with a credential against a service of the binding's version, on which   *)
(* file_metadata is called once by hash, the service sending any document   *)
(* of at most MaxEntries entries.                                           *)

InitMeta ==
    /\ constructed = TRUE
    /\ access_key = PyStr(<<"k", "1">>)
    /\ url = <<"h">>
    /\ transport_calls = MaxRequests - 1
    /\ last = Construction(PyStr(<<"k", "1">>), <<"h", "/">>,
                           [status_code |-> 200, body |-> [version |-> PyInt(VERSION)]])

NextMeta ==
    /\ transport_calls < MaxRequests
    /\ \E o \in Flags, r \in MetaResponses :
          file_metadata(PyList(<<PyStr(<<"a", "b">>)>>), None, o, r)

SpecMeta == InitMeta /\ [][NextMeta]_vars

----------------------------------------------------------------------------
(* Properties of the dispatcher *)

Answered == Len(last.response) = 1

Status == last.response[1].status_code

Raised == last.outcome.kind = "raise"

Returned == last.op # "" /\ last.outcome.kind = "return"

RaisedClass(cls) == Raised /\ last.outcome.exc.cls = cls

C1_Kind(s) ==
    CASE s = 400 -> "MissingParameter"
      [] s = 401 -> "InsufficientAccess"
      [] s = 403 -> "InsufficientAccess"
      [] s = 500 -> "ServerError"
      [] OTHER -> "APIError"

\* C1: whatever the operation, an answer of status 400, 401, 403, 418 or 500
\* makes the call raise; and every error of the APIError family a call
\* raises is of exactly the class its status maps to (400 MissingParameter,
\* 401 and 403 InsufficientAccess, 500 ServerError, any other the generic
\* APIError) and carries the response the service gave.
C1_StatusMapping ==
    Answered =>
        /\ Status \in {400, 401, 403, 418, 500} => Raised
        /\ (Raised /\ IsInstance(last.outcome.exc.cls, "APIError")) =>
              /\ last.outcome.exc.cls = C1_Kind(Status)
              /\ last.outcome.exc.response = last.response

C1_Witness ==
    /\ last.op = "add_tags"
    /\ Answered
    /\ Status = 418
    /\ RaisedClass("APIError")
    /\ last.outcome.exc.response[1].body = ErrorText

\* C2 (as claimed): the response reaches the operation's translating code if
\* and only if its status is in [200, 300); for any other status the call
\* raises an error of the APIError family and returns nothing.
C2_OnlySuccessIsTranslated ==
    Answered =>
        /\ last.translated <=> (200 <= Status /\ Status < 300)
        /\ ~(200 <= Status /\ Status < 300) =>
              (Raised /\ IsInstance(last.outcome.exc.cls, "APIError"))

----------------------------------------------------------------------------
(* Properties of the file identity rule *)

IdentityOps == {"file_metadata", "get_file", "get_thumbnail"}

\* The two identity arguments of a call of an identity operation.
HashArg(call) == IF call.op = "file_metadata" THEN call.args.hashes ELSE call.args.hash_

IdArg(call) == IF call.op = "file_metadata" THEN call.args.file_ids ELSE call.args.file_id

Supplied(x) == x.t # "NoneType"

\* The call raised the usage error of the identity operations.
UsageError(call) ==
    /\ call.outcome.kind = "raise"
    /\ call.outcome.exc.cls = "Exception"
    /\ call.sent = <<>>

\* C3 (as claimed): a call of file_metadata, get_file or get_thumbnail that
\* is given both identity forms, or neither, raises the usage error and
\* leaves the transport's request count as it was.
C3_BothOrNeitherRejected ==
    [][(/\ last'.op \in IdentityOps
        /\ Supplied(HashArg(last')) = Supplied(IdArg(last')))
       => (UsageError(last') /\ transport_calls' = transport_calls)]_vars

\* The query parameters of the request a call sent.
ParamsSent(call) == DOMAIN call.sent[1].kwargs.params

\* C10 (as claimed): a call of file_metadata, get_file or get_thumbnail that
\* is given exactly one identity form, whatever its value, is not rejected
\* with the usage error, and its one request carries that identity
\* parameter and not the other.
C10_ExactlyOneAccepted ==
    (/\ last.op \in IdentityOps
     /\ Supplied(HashArg(last)) # Supplied(IdArg(last)))
    => /\ ~UsageError(last)
       /\ Len(last.sent) = 1
       /\ ParamsSent(last) \cap {"hash", "hashes", "file_id", "file_ids"} =
             IF Supplied(HashArg(last))
             THEN {IF last.op = "file_metadata" THEN "hashes" ELSE "hash"}
             ELSE {IF last.op = "file_metadata" THEN "file_ids" ELSE "file_id"}

----------------------------------------------------------------------------
(* Properties of the enumerations *)

EnumOps == {"verify_access_key", "add_file", "get_url_files", "get_url_info"}

C4_Enum(op) ==
    CASE op = "verify_access_key" -> "Permission"
      [] op = "add_file" -> "ImportStatus"
      [] op = "get_url_files" -> "ImportStatus"
      [] op = "get_url_info" -> "URLType"

C4_Closed(op) ==
    CASE op = "verify_access_key" -> {0, 1, 2, 3}
      [] op = "add_file" -> {0, 1, 2, 3, 4, 7}
      [] op = "get_url_files" -> {0, 1, 2, 3, 4, 7}
      [] op = "get_url_info" -> {0, 2, 3, 4, 5}

\* The enumerated fields of a document of operation op, in order.
C4_Fields(op, doc) ==
    CASE op = "verify_access_key" -> doc.basic_permissions.v
      [] op = "add_file" -> <<doc.status>>
      [] op = "get_url_files" ->
            [i \in DOMAIN doc.url_file_statuses.v |-> doc.url_file_statuses.v[i].status]
      [] op = "get_url_info" -> <<doc.url_type>>

\* C4: when verify_access_key, add_file, get_url_files or get_url_info gets
\* a 2xx answer, it returns a result if and only if every enumerated integer
\* of the answer is in the closed set of its enumeration; each enumerated
\* field of the result is then the member of the enumeration with that
\* integer; otherwise the call raises ValueError.
C4_EnumsCoerced ==
    (last.op \in EnumOps /\ Answered /\ 200 <= Status /\ Status < 300) =>
        LET raw == C4_Fields(last.op, last.response[1].body)
        IN  /\ Returned <=> \A i \in DOMAIN raw : raw[i].v \in C4_Closed(last.op)
            /\ ~Returned => RaisedClass("ValueError")
            /\ Returned =>
                  LET typed == C4_Fields(last.op, last.outcome.value)
                  IN  /\ DOMAIN typed = DOMAIN raw
                      /\ \A i \in DOMAIN raw :
                            typed[i] = [t |-> C4_Enum(last.op), v |-> raw[i].v]

C4_Witness ==
    /\ last.op = "get_url_files"
    /\ Answered
    /\ Status = 200
    /\ Returned
    /\ Len(last.outcome.value.url_file_statuses.v) = 2
    /\ last.outcome.value.url_file_statuses.v[2].status = [t |-> "ImportStatus", v |-> 7]

----------------------------------------------------------------------------
(* Properties of add_file, of construction and of the credential *)

OneAddFilePost ==
    /\ Len(last.sent) = 1
    /\ last.sent[1].method = "POST"
    /\ last.sent[1].url = Append(url, "/add_files/add_file")

\* C6 (as claimed): add_file of a string sends one POST to
\* /add_files/add_file whose JSON body holds the string as the path;
\* add_file of a binary stream sends one POST there whose body is the
\* stream's bytes, with content type application/octet-stream; add_file of
\* anything else raises the usage error and sends nothing.
C6_AddFileByArgument ==
    last.op = "add_file" =>
        LET x == last.args.path_or_file
        IN  CASE x.t = "str" ->
                    /\ OneAddFilePost
                    /\ "json" \in DOMAIN last.sent[1].kwargs
                    /\ last.sent[1].kwargs.json = [path |-> x]
              [] x.t \in {"BytesIO", "BufferedReader"} ->
                    /\ OneAddFilePost
                    /\ "data" \in DOMAIN last.sent[1].kwargs
                    /\ last.sent[1].kwargs.data = SubSeq(x.v, x.pos + 1, Len(x.v))
                    /\ last.sent[1].kwargs.headers["Content-Type"] =
                          PyStr(<<"application/octet-stream">>)
              [] OTHER -> RaisedClass("ValueError") /\ last.sent = <<>>

\* C7: a construction whose /api_version request gets a 2xx answer returns
\* and leaves a client with the credential and the base URL it was given
\* (trailing slashes dropped); it emits one warning when the reported
\* version is not 4 and none when it is.
C7_VersionMismatchWarns ==
    (last.op = "__init__" /\ Answered /\ 200 <= Status /\ Status < 300) =>
        /\ Returned
        /\ constructed
        /\ access_key = last.args.access_key
        /\ last.warnings = IF last.response[1].body.version.v = 4 THEN 0 ELSE 1

C7_Witness ==
    /\ last.op = "__init__"
    /\ Answered
    /\ Status = 200
    /\ last.response[1].body.version.v = 5
    /\ last.warnings = 1
    /\ Returned
    /\ constructed

\* The credential of the client that sent the requests of the last call.
SenderKey == IF last.op = "__init__" THEN last.args.access_key ELSE access_key

C8_Headers ==
    \A i \in DOMAIN last.sent :
        LET kwargs == last.sent[i].kwargs
            carried == "headers" \in DOMAIN kwargs
                          /\ AccessKeyHeader \in DOMAIN kwargs.headers
        IN  /\ (SenderKey.t = "str" /\ SenderKey.v # <<>>) =>
                  (carried /\ kwargs.headers[AccessKeyHeader] = SenderKey)
            /\ (SenderKey.t = "NoneType" \/ SenderKey.v = <<>>) => ~carried

C8_Unchanged ==
    (constructed /\ last'.op # "__init__") => (access_key' = access_key /\ url' = url)

\* C8: every request a client with a (non-empty) credential sends, the
\* /api_version request of its construction and add_file's octet-stream
\* request included, carries the access-key header with exactly that
\* credential; a client without one never sends the header; and no
\* operation on a client changes its credential or its base URL.
C8_CredentialOnEveryRequest == []C8_Headers /\ [][C8_Unchanged]_vars

C8_Witness ==
    /\ last.op = "add_file"
    /\ last.args.path_or_file.t = "BytesIO"
    /\ Len(last.sent) = 1
    /\ DOMAIN last.sent[1].kwargs.headers = {"Content-Type", AccessKeyHeader}
    /\ last.sent[1].kwargs.headers[AccessKeyHeader] = PyStr(<<"k", "2">>)

\* A call raised while its own code read the answer the dispatcher returned.
DataFormatError(call) == call.outcome.kind = "raise" /\ call.translated

\* A call raised before it sent a request.
CallerError(call) == call.outcome.kind = "raise" /\ call.sent = <<>>

\* C9 (as claimed): a usage error and a data-format error of the same
\* operation are never of the same class, and neither is of the APIError
\* family.
C9_ErrorKindsDistinct ==
    [][(CallerError(last) /\ DataFormatError(last') /\ last.op = last'.op)
       => /\ last.outcome.exc.cls # last'.outcome.exc.cls
          /\ ~IsInstance(last.outcome.exc.cls, "APIError")
          /\ ~IsInstance(last'.outcome.exc.cls, "APIError")]_vars

----------------------------------------------------------------------------
(* Properties of file_metadata's translation *)

\* file_metadata returned the translation of a 2xx answer.
MetadataTranslated ==
    /\ last.op = "file_metadata"
    /\ ~last.args.only_identifiers.v
    /\ Answered
    /\ 200 <= Status /\ Status < 300
    /\ Returned

Services(datum) == datum.service_names_to_statuses_to_tags

\* The raw status keys of a service denote pairwise different integers.
C5_DistinctStatuses(raw) ==
    \A a, b \in DOMAIN raw : a # b => int(raw[a][1]) # int(raw[b][1])

\* The translated mapping of a service against its raw mapping: as many
\* entries, every key a TagStatus, and for each raw entry exactly one entry
\* keyed by the TagStatus of its status code and holding its tag list.
C5_Rekeyed(raw, translated) ==
    /\ Len(translated) = Len(raw)
    /\ \A k \in DOMAIN translated : translated[k][1].t = "TagStatus"
    /\ \A e \in DOMAIN raw :
          Cardinality({k \in DOMAIN translated :
                          /\ translated[k][1] = [t |-> "TagStatus", v |-> int(raw[e][1])]
                          /\ translated[k][2] = raw[e][2]}) = 1

\* The result lists the records and, in each, the services of the answer.
C5_SameShape(raw, result) ==
    /\ DOMAIN result = DOMAIN raw
    /\ \A r \in DOMAIN raw :
          /\ result[r].file_id = raw[r].file_id
          /\ DOMAIN Services(result[r]) = DOMAIN Services(raw[r])
          /\ \A j \in DOMAIN Services(raw[r]) :
                Services(result[r])[j][1] = Services(raw[r])[j][1]

\* C5 (as claimed): in the result of file_metadata (not identifier-only, 2xx
\* answer) every service of every record has exactly one entry per entry of
\* its raw mapping, keyed by the TagStatus of the raw status code and
\* holding the same tag list; no raw key remains and the number of entries
\* of the service is kept.
C5_EveryServiceRekeyed ==
    MetadataTranslated =>
        LET raw == last.response[1].body.metadata
            result == last.outcome.value
        IN  /\ C5_SameShape(raw, result)
            /\ \A r \in DOMAIN raw : \A j \in DOMAIN Services(raw[r]) :
                  C5_Rekeyed(Services(raw[r])[j][2], Services(result[r])[j][2])

\* C5 (amended): the same, for every service whose raw status keys denote
\* pairwise different integers, whatever the keys of the other services and
\* records are.
C5_DistinctStatusesRekeyed ==
    MetadataTranslated =>
        LET raw == last.response[1].body.metadata
            result == last.outcome.value
        IN  /\ C5_SameShape(raw, result)
            /\ \A r \in DOMAIN raw : \A j \in DOMAIN Services(raw[r]) :
                  C5_DistinctStatuses(Services(raw[r])[j][2]) =>
                      C5_Rekeyed(Services(raw[r])[j][2], Services(result[r])[j][2])

C5_Witness ==
    /\ MetadataTranslated
    /\ Services(last.response[1].body.metadata[1]) =
          <<<<"my tags", <<<<PyStr(<<"0">>), <<"a">>>>, <<PyStr(<<"1">>), <<"b">>>>>>>>>>
    /\ Services(last.outcome.value[1]) =
          <<<<"my tags", <<<<[t |-> "TagStatus", v |-> 0], <<"a">>>>,
                           <<[t |-> "TagStatus", v |-> 1], <<"b">>>>>>>>>>

====
